---- MODULE Spec2Model ----
(***************************************************************************)
(* Burn-on-read service: the entry store (src/utils/fileManager.ts), the   *)
(* content sanitizer (src/utils/sanitize.ts) and the two routes of the     *)
(* access gateway (src/routes/index.ts), over a filesystem whose calls     *)
(* (access, readFile, unlink, writeFile) are the atomic steps.             *)
(*                                                                         *)
(* Text is a sequence of UTF-16 code units, one one-character string per   *)
(* unit; "HS" and "LS" stand for a high and a low surrogate code unit,    *)
(* "FFFD" for U+FFFD and "GRAVE" for the grave accent. Identifiers and     *)
(* paths are long texts: the state holds a handle for each, and IdText     *)
(* and PathText give the text that the code computes with.                 *)
(***************************************************************************)
EXTENDS Integers, Sequences, FiniteSets, TLC

(***************************************************************************)
(* Bounds of the model.                                                    *)
(***************************************************************************)
\* requests (HTTP requests and direct calls of the store) in one behaviour
MaxRequests == 3
\* requests in one behaviour whose messages have the maximum length
MaxLongRequests == 2
\* length of the short texts the sanitizer's functions are applied to
MaxTextLen == 3
\* calls of the medium that fail for a reason other than a missing file
MaxFaults == 1

(***************************************************************************)
(* Text helpers.                                                           *)
(***************************************************************************)
\* the concatenation of the texts of ss, in order (by halves: a text of
\* the maximum length has ten thousand parts)
RECURSIVE Concat(_)
Concat(ss) ==
    IF Len(ss) = 0 THEN <<>>
    ELSE IF Len(ss) = 1 THEN ss[1]
    ELSE LET half == Len(ss) \div 2
         IN  Concat(SubSeq(ss, 1, half)) \o Concat(SubSeq(ss, half + 1, Len(ss)))

\* String.prototype.substring(0, n)
Substring_Whole(s, n) == s
Substring(s, n) == IF Len(s) <= n THEN s ELSE SubSeq(s, 1, n)

WhiteSpace == {" ", "\t", "\n"}

RECURSIVE TrimStart(_)
TrimStart(s) ==
    IF s # <<>> /\ Head(s) \in WhiteSpace THEN TrimStart(Tail(s)) ELSE s

RECURSIVE TrimEnd(_)
TrimEnd(s) ==
    IF s # <<>> /\ s[Len(s)] \in WhiteSpace
    THEN TrimEnd(SubSeq(s, 1, Len(s) - 1))
    ELSE s

\* String.prototype.trim()
Trim(s) == TrimEnd(TrimStart(s))

\* validator.escape: the replacement of one code unit
EscapeChar_KeepAmpersand(c) ==
    CASE c = "\"" -> <<"&","q","u","o","t",";">>
      [] c = "'"  -> <<"&","#","x","2","7",";">>
      [] c = "<"  -> <<"&","l","t",";">>
      [] c = ">"  -> <<"&","g","t",";">>
      [] c = "/"  -> <<"&","#","x","2","F",";">>
      [] c = "\\" -> <<"&","#","x","5","C",";">>
      [] c = "GRAVE" -> <<"&","#","9","6",";">>
      [] OTHER    -> <<c>>
EscapeChar(c) ==
    CASE c = "&"  -> <<"&","a","m","p",";">>
      [] c = "\"" -> <<"&","q","u","o","t",";">>
      [] c = "'"  -> <<"&","#","x","2","7",";">>
      [] c = "<"  -> <<"&","l","t",";">>
      [] c = ">"  -> <<"&","g","t",";">>
      [] c = "/"  -> <<"&","#","x","2","F",";">>
      [] c = "\\" -> <<"&","#","x","5","C",";">>
      [] c = "GRAVE" -> <<"&","#","9","6",";">>
      [] OTHER    -> <<c>>

\* validator.escape(str)
Escape(s) == Concat([i \in 1..Len(s) |-> EscapeChar(s[i])])

(***************************************************************************)
(* Content sanitizer.                                                      *)
(***************************************************************************)
SanitizeMaxLength == 10000
ValidateMaxLength == 10000

\* sanitizeInput(input): trim, escape, then cut to the maximum length
sanitizeInput_CutFirst(input) == Escape(Trim(Substring(input, SanitizeMaxLength)))
sanitizeInput(input) == Substring(Escape(Trim(input)), SanitizeMaxLength)

\* A value of req.body.message: text, or a value of another type.
StringValue(s) == [kind |-> "string", text |-> s]
UndefinedValue == [kind |-> "undefined", text |-> <<>>]
ArrayValue == [kind |-> "object", text |-> <<>>]
NullValue == [kind |-> "null", text |-> <<>>]
NumberValue == [kind |-> "number", text |-> <<>>]
BooleanValue == [kind |-> "boolean", text |-> <<>>]

\* validateMessage(message)
validateMessage_NoTrim(message) ==
    message.kind = "string" /\ message.text # <<>>
    /\ Len(message.text) <= ValidateMaxLength
validateMessage_TrimmedLength(message) ==
    message.kind = "string" /\ Len(Trim(message.text)) # 0
    /\ Len(Trim(message.text)) <= ValidateMaxLength
validateMessage_NoLimit(message) ==
    message.kind = "string" /\ Len(Trim(message.text)) # 0
validateMessage(message) ==
    IF message.kind # "string" \/ message.text = <<>> THEN FALSE
    ELSE IF Len(Trim(message.text)) = 0 THEN FALSE
    ELSE IF Len(message.text) > ValidateMaxLength THEN FALSE
    ELSE TRUE

(***************************************************************************)
(* Identifiers.                                                            *)
(***************************************************************************)
UUID_A == <<"1","b","9","d","6","b","c","d","-","b","b","f","d","-","4","b","2","d","-","9","b","5","d","-","a","b","8","d","f","b","b","d","4","b","e","d">>
UUID_B == <<"9","c","5","b","9","4","b","1","-","3","5","a","d","-","4","9","b","b","-","b","1","1","8","-","8","e","8","f","c","2","4","a","b","f","8","0">>
ALIAS_A == <<".","/","1","b","9","d","6","b","c","d","-","b","b","f","d","-","4","b","2","d","-","9","b","5","d","-","a","b","8","d","f","b","b","d","4","b","e","d">>
TRAVERSAL == <<".",".","/","e","t","c","/","p","a","s","s","w","d">>

\* The state names an identifier by a short handle; IdText is its text.
KEY_A == "<uuid A>"
KEY_B == "<uuid B>"
KEY_ALIAS_A == "./<uuid A>"
KEY_TRAVERSAL == "../etc/passwd"

IdText(id) ==
    CASE id = KEY_A         -> UUID_A
      [] id = KEY_B         -> UUID_B
      [] id = KEY_ALIAS_A   -> ALIAS_A
      [] id = KEY_TRAVERSAL -> TRAVERSAL

\* the identifiers uuidv4() can return in a behaviour of the model
GeneratedUUIDs == {KEY_A, KEY_B}

\* the identifiers a reader can present in GET /message/:id
RequestedIds == {KEY_A, KEY_B, KEY_ALIAS_A, KEY_TRAVERSAL}

\* the identifiers of the direct calls of readAndDeleteMessage: those the
\* route never passes on
DirectCallIds == {KEY_ALIAS_A, KEY_TRAVERSAL}

HexDigit ==
    {"0","1","2","3","4","5","6","7","8","9",
     "a","b","c","d","e","f","A","B","C","D","E","F"}

\* isValidMessageId: /^[0-9a-f]{8}-[0-9a-f]{4}-4[0-9a-f]{3}-[89ab][0-9a-f]{3}-[0-9a-f]{12}$/i
MatchesUuidAt(s, off) ==
    /\ Len(s) >= off + 36
    /\ \A i \in 1..36 :
          IF i \in {9, 14, 19, 24} THEN s[off + i] = "-"
          ELSE IF i = 15 THEN s[off + i] = "4"
          ELSE IF i = 20 THEN s[off + i] \in {"8","9","a","b","A","B"}
          ELSE s[off + i] \in HexDigit

isValidMessageId_NoHyphens(messageId) ==
    Len(messageId) = 32 /\ \A i \in 1..32 : messageId[i] \in HexDigit
isValidMessageId(messageId) ==
    Len(messageId) = 36 /\ MatchesUuidAt(messageId, 0)

\* uuidv4(): an identifier that was not generated before
uuidv4_Colliding(issuedIds) == GeneratedUUIDs
uuidv4(issuedIds) == GeneratedUUIDs \ issuedIds

(***************************************************************************)
(* Paths: a path is the sequence of its segments below the filesystem      *)
(* root, each segment a sequence of characters.                            *)
(***************************************************************************)
\* the segments of s between "/" characters, the segment in progress in cur
RECURSIVE SplitSlash(_, _)
SplitSlash(s, cur) ==
    IF s = <<>> THEN <<cur>>
    ELSE IF Head(s) = "/" THEN <<cur>> \o SplitSlash(Tail(s), <<>>)
    ELSE SplitSlash(Tail(s), Append(cur, Head(s)))

\* path.normalize on segments: "" and "." are dropped, ".." removes the
\* segment before it (nothing is above the root)
RECURSIVE Normalize(_, _)
Normalize(segs, out) ==
    IF segs = <<>> THEN out
    ELSE IF Head(segs) = <<>> \/ Head(segs) = <<".">> THEN Normalize(Tail(segs), out)
    ELSE IF Head(segs) = <<".", ".">>
         THEN Normalize(Tail(segs),
                        IF out = <<>> THEN out ELSE SubSeq(out, 1, Len(out) - 1))
    ELSE Normalize(Tail(segs), Append(out, Head(segs)))

\* messagesDir = path.join(__dirname, "../../messages")
messagesDir == << <<"a","p","p">>, <<"m","e","s","s","a","g","e","s">> >>

\* path.join(messagesDir, `${messageId}.txt`)
filePath(messageId) ==
    Normalize(messagesDir \o SplitSlash(messageId \o <<".","t","x","t">>, <<>>), <<>>)

\* The state names a file by a short handle; PathText is its path.
PATH_A == "/app/messages/<uuid A>.txt"
PATH_B == "/app/messages/<uuid B>.txt"
PATH_PASSWD == "/app/etc/passwd.txt"

PathText(path) ==
    CASE path = PATH_A      -> Append(messagesDir, UUID_A \o <<".","t","x","t">>)
      [] path = PATH_B      -> Append(messagesDir, UUID_B \o <<".","t","x","t">>)
      [] path = PATH_PASSWD ->
            << <<"a","p","p">>, <<"e","t","c">>,
               <<"p","a","s","s","w","d",".","t","x","t">> >>

FilePaths == {PATH_A, PATH_B, PATH_PASSWD}

\* the file that readAndDeleteMessage and saveMessage address for an identifier
PathOf(id) == CHOOSE path \in FilePaths : PathText(path) = filePath(IdText(id))

(***************************************************************************)
(* The medium: fs/promises on a POSIX filesystem.                          *)
(***************************************************************************)
NoFile == [exists |-> FALSE, data |-> <<>>, ino |-> 0]

\* An unpaired surrogate code unit has no UTF-8 encoding.
IsLoneSurrogate(s, i) ==
    \/ s[i] = "HS" /\ ~(i < Len(s) /\ s[i + 1] = "LS")
    \/ s[i] = "LS" /\ ~(i > 1 /\ s[i - 1] = "HS")

\* The text that the bytes written for s under "utf-8" decode to: Buffer
\* encodes an unpaired surrogate as U+FFFD.
Utf8(s) == [i \in 1..Len(s) |-> IF IsLoneSurrogate(s, i) THEN "FFFD" ELSE s[i]]

\* fs.access(path) resolves
AccessOk(f, path) == f[path].exists

\* fs.readFile(path, "utf-8") resolves, and with what
ReadFileOk(f, path) == f[path].exists
ReadFileData(f, path) == f[path].data

\* fs.unlink(path) resolves: the name is removed by exactly one caller
UnlinkOk_Force(f, path) == TRUE
UnlinkOk(f, path) == f[path].exists
UnlinkKeep(f, path) == f
Unlinked(f, path) == [f EXCEPT ![path] = NoFile]

\* fs.writeFile opens with flag "w": the file is created empty, or truncated
Opened(f, path, ino) ==
    [f EXCEPT ![path] = [exists |-> TRUE, data |-> <<>>,
                         ino |-> IF f[path].exists THEN f[path].ino ELSE ino]]

\* a write on an open descriptor reaches the file its name still leads to
Written_AtStart(f, path, ino, units) ==
    IF f[path].exists /\ f[path].ino = ino
    THEN [f EXCEPT ![path].data = units]
    ELSE f
Written(f, path, ino, units) ==
    IF f[path].exists /\ f[path].ino = ino
    THEN [f EXCEPT ![path].data = @ \o units]
    ELSE f

(***************************************************************************)
(* State.                                                                  *)
(***************************************************************************)
VARIABLES
    fs,         \* the filesystem: path -> file
    issued,     \* the identifiers uuidv4() has returned
    requests,   \* the requests started so far, in order of arrival
    faults,     \* failures of the medium so far
    saved,      \* history: path -> content passed to saveMessage
    committed,  \* history: paths whose saveMessage has returned its key
    removed,    \* history: paths whose unlink has succeeded
    app         \* the bootstrap: its position, and what is at messagesDir

vars == <<fs, issued, requests, faults, saved, committed, removed, app>>

\* what the path messagesDir can lead to when the process starts
DirStates == {"missing", "directory", "file"}
\* fs.existsSync(path): true for whatever the path leads to
ExistsSync(dir) == dir # "missing"
\* the server listens and messagesDir is a directory
Listening == [pc |-> "listening", messagesDir |-> "directory"]

POST_CREATE == "POST /create"
GET_MESSAGE == "GET /message/:id"
STORE_CALL == "readAndDeleteMessage"

NoText == [some |-> FALSE, text |-> <<>>]
Text(t) == [some |-> TRUE, text |-> t]

\* what a route has sent
NoResponse == [status |-> 0, view |-> "", message |-> NoText]
InvalidMessage == [status |-> 400, view |-> "Invalid message", message |-> NoText]
InternalServerError_AsSuccess ==
    [status |-> 200, view |-> "success.njk", message |-> NoText]
InternalServerError ==
    [status |-> 500, view |-> "Internal server error", message |-> NoText]
\* res.render("success.njk", { link }): the link ends in the identifier
SuccessPage(messageId) ==
    [status |-> 200, view |-> "success.njk", message |-> Text(<<messageId>>)]
\* res.render("message.njk", { message }), message null or the content
MessagePage(message) == [status |-> 200, view |-> "message.njk", message |-> message]
InvalidIdPage_400 == [status |-> 400, view |-> "Invalid id", message |-> NoText]
InvalidIdPage == MessagePage(NoText)

\* {% if message %} in message.njk: null and "" take the not-found branch
ShowsMessage(response) ==
    /\ response.view = "message.njk"
    /\ response.message.some
    /\ response.message.text # <<>>

Consumers == {GET_MESSAGE, STORE_CALL}

Ids == 1..Len(requests)
ConsumersOf(path) ==
    {i \in Ids : requests[i].route \in Consumers /\ requests[i].path = path}
Running(i) == requests[i].pc # "done"
Live(path) == path \in committed /\ fs[path].exists

\* where the entry stands when a consumer starts
Phase(path) ==
    IF path \in removed THEN "gone"
    ELSE IF Live(path) THEN "live"
    ELSE "before"

NoId == ""
NoPath == ""
NoMessage == ""

NewRequest(route, id) ==
    [route |-> route, id |-> id, message |-> NoMessage,
     path |-> IF id = NoId THEN NoPath ELSE PathOf(id), pc |-> "done",
     sanitizedMessage |-> <<>>, written |-> 0, fd |-> 0,
     content |-> NoText, result |-> NoText, response |-> NoResponse,
     ops |-> {}, fault |-> FALSE, phase |-> "", alone |-> TRUE]

TypeOK ==
    /\ fs \in [FilePaths -> [exists : BOOLEAN, data : Seq(STRING), ino : Nat]]
    /\ issued \subseteq GeneratedUUIDs
    /\ Len(requests) <= MaxRequests
    /\ faults \in 0..MaxFaults
    /\ app.messagesDir \in DirStates

Init ==
    /\ fs = [p \in FilePaths |-> NoFile]
    /\ issued = {}
    /\ requests = <<>>
    /\ faults = 0
    /\ saved = [p \in FilePaths |-> NoText]
    /\ committed = {}
    /\ removed = {}
    /\ app = Listening

(***************************************************************************)
(* Requests.                                                               *)
(***************************************************************************)
\* The messages a client can post. The state names a message by a short
\* handle; Body is the value of req.body.message.
LongText == [i \in 1..(ValidateMaxLength + 1) |-> "a"]
\* a text of the maximum length whose last character escape replaces
FullText == [i \in 1..ValidateMaxLength |-> IF i = ValidateMaxLength THEN "<" ELSE "a"]

MESSAGE_HI == "' hi'"
MESSAGE_SURROGATE == "'\\ud800'"
MESSAGE_EMPTY == "''"
MESSAGE_BLANK == "' \\t'"
MESSAGE_TOO_LONG == "'a' x 10001"
MESSAGE_FULL == "'a' x 9999 + '<'"
MESSAGE_UNDEFINED == "undefined"
MESSAGE_ARRAY == "['hi']"

Body(message) ==
    CASE message = MESSAGE_HI        -> StringValue(<<" ","h","i">>)
      [] message = MESSAGE_SURROGATE -> StringValue(<<"HS">>)
      [] message = MESSAGE_EMPTY     -> StringValue(<<>>)
      [] message = MESSAGE_BLANK     -> StringValue(<<" ","\t">>)
      [] message = MESSAGE_TOO_LONG  -> StringValue(LongText)
      [] message = MESSAGE_FULL      -> StringValue(FullText)
      [] message = MESSAGE_UNDEFINED -> UndefinedValue
      [] message = MESSAGE_ARRAY     -> ArrayValue

PostedMessages ==
    {MESSAGE_HI, MESSAGE_SURROGATE, MESSAGE_EMPTY, MESSAGE_BLANK,
     MESSAGE_TOO_LONG, MESSAGE_UNDEFINED, MESSAGE_ARRAY}

CanStart == Len(requests) < MaxRequests
CanFail == faults < MaxFaults

Finish_WithCause(r, result, response) ==
    [r EXCEPT !.pc = "done", !.result = result,
              !.response = IF r.fault
                           THEN [response EXCEPT !.message = Text(<<r.path, r.pc>>)]
                           ELSE response]
Finish(r, result, response) ==
    [r EXCEPT !.pc = "done", !.result = result, !.response = response]

\* the value readAndDeleteMessage returns reaches its caller; the route
\* renders message.njk with it
Return_Discard(r, result) ==
    Finish(r, NoText, IF r.route = GET_MESSAGE THEN MessagePage(NoText) ELSE NoResponse)
Return_Rethrow(r, result) ==
    Finish(r, result,
           IF r.route # GET_MESSAGE THEN NoResponse
           ELSE IF r.fault THEN InternalServerError
           ELSE MessagePage(result))
Return(r, result) ==
    Finish(r, result, IF r.route = GET_MESSAGE THEN MessagePage(result) ELSE NoResponse)

Did(r, op) == [r EXCEPT !.ops = @ \cup {op}]
Failed(r, op) == [Did(r, op) EXCEPT !.fault = TRUE]

\* a consumer that starts on a path ends the solitude of those running on it
Joined(path) ==
    [i \in Ids |->
        IF i \in ConsumersOf(path) /\ Running(i)
        THEN [requests[i] EXCEPT !.alone = FALSE]
        ELSE requests[i]]

StartConsumer(route, id) ==
    LET path == PathOf(id)
        r == [NewRequest(route, id) EXCEPT
                !.pc = "access",
                !.phase = Phase(path),
                !.alone = \A i \in ConsumersOf(path) : ~Running(i)]
    IN  requests' = Append(Joined(path), r)

\* POST /create with an unacceptable message: 400, nothing else happens
PostCreateInvalid ==
    /\ CanStart
    /\ \E message \in PostedMessages :
          /\ ~validateMessage(Body(message))
          /\ requests' = Append(requests,
                Finish([NewRequest(POST_CREATE, NoId) EXCEPT !.message = message],
                       NoText, InvalidMessage))
    /\ UNCHANGED <<fs, issued, faults, saved, committed, removed, app>>

\* POST /create up to the await in saveMessage: validate, sanitize, generate
\* the identifier, start writeFile
PostCreateOf(messages) ==
    /\ \E message \in messages :
          /\ validateMessage(Body(message))
          /\ \E messageId \in uuidv4(issued) :
                LET content == sanitizeInput(Body(message).text) IN
                /\ requests' = Append(requests,
                      [NewRequest(POST_CREATE, messageId) EXCEPT
                          !.message = message,
                          !.pc = "open", !.sanitizedMessage = content])
                /\ issued' = issued \cup {messageId}
                /\ saved' = [saved EXCEPT ![PathOf(messageId)] = Text(content)]
    /\ UNCHANGED <<fs, faults, committed, removed, app>>

PostCreate == CanStart /\ PostCreateOf(PostedMessages)

\* the rejection of writeFile leaves saveMessage and is caught by the route
CreateFails(i, op) ==
    /\ CanFail
    /\ faults' = faults + 1
    /\ requests' = [requests EXCEPT
          ![i] = Finish(Failed(@, op), NoText, InternalServerError)]

\* writeFile: open(path, "w"); without a directory at messagesDir the open
\* rejects (ENOENT, ENOTDIR)
WriteFileOpen(i) ==
    /\ requests[i].pc = "open"
    /\ \/ /\ app.messagesDir = "directory"
          /\ fs' = Opened(fs, requests[i].path, i)
          /\ requests' = [requests EXCEPT
                ![i] = [Did(@, "open") EXCEPT
                          !.fd = fs'[requests[i].path].ino,
                          !.pc = IF requests[i].sanitizedMessage = <<>>
                                 THEN "close" ELSE "write"]]
          /\ UNCHANGED faults
       \/ /\ app.messagesDir # "directory"
          /\ requests' = [requests EXCEPT
                ![i] = Finish(Failed(@, "open"), NoText, InternalServerError)]
          /\ UNCHANGED <<fs, faults>>
       \/ /\ CreateFails(i, "open")
          /\ UNCHANGED fs
    /\ UNCHANGED <<issued, saved, committed, removed, app>>

\* the counts a write of n units can return: all of them, or a first part
WriteSizes_Stalled(n) == {0}
WriteSizes(n) == {n, (n + 1) \div 2}

\* writeFile: one write(fd, ...) of the loop; it may write less than asked
WriteFileWrite(i) ==
    /\ requests[i].pc = "write"
    /\ LET r == requests[i]
           bytes == Utf8(r.sanitizedMessage)
       IN  \/ \E n \in WriteSizes(Len(bytes) - r.written) :
                /\ fs' = Written(fs, r.path, r.fd,
                                 SubSeq(bytes, r.written + 1, r.written + n))
                /\ requests' = [requests EXCEPT
                      ![i] = [Did(@, "write") EXCEPT
                                !.written = r.written + n,
                                !.pc = IF r.written + n = Len(bytes)
                                       THEN "close" ELSE "write"]]
                /\ UNCHANGED faults
           \/ /\ CreateFails(i, "write")
              /\ UNCHANGED fs
    /\ UNCHANGED <<issued, saved, committed, removed, app>>

\* writeFile resolves, saveMessage returns the identifier, the route renders
\* the success page with the link
WriteFileClose(i) ==
    /\ requests[i].pc = "close"
    /\ requests' = [requests EXCEPT
          ![i] = Finish(Did(@, "close"), Text(<<requests[i].id>>),
                        SuccessPage(requests[i].id))]
    /\ committed' = committed \cup {requests[i].path}
    /\ UNCHANGED <<fs, issued, faults, saved, removed, app>>

\* if (!isValidMessageId(id)) in the route
RejectsId_DotDot(id) ==
    \E n \in 1..(Len(IdText(id)) - 1) : IdText(id)[n] = "." /\ IdText(id)[n + 1] = "."
RejectsId(id) == ~isValidMessageId(IdText(id))

\* GET /message/:id with an id that fails the format check
GetMessageInvalid ==
    /\ CanStart
    /\ \E id \in RequestedIds :
          /\ RejectsId(id)
          /\ requests' = Append(requests,
                Finish(NewRequest(GET_MESSAGE, id), NoText, InvalidIdPage))
    /\ UNCHANGED <<fs, issued, faults, saved, committed, removed, app>>

\* GET /message/:id with a well-formed id, up to the first await of
\* readAndDeleteMessage
GetMessage ==
    /\ CanStart
    /\ \E id \in RequestedIds :
          /\ ~RejectsId(id)
          /\ StartConsumer(GET_MESSAGE, id)
    /\ UNCHANGED <<fs, issued, faults, saved, committed, removed, app>>

\* readAndDeleteMessage(messageId) called by another module
CallReadAndDelete ==
    /\ CanStart
    /\ \E id \in DirectCallIds : StartConsumer(STORE_CALL, id)
    /\ UNCHANGED <<fs, issued, faults, saved, committed, removed, app>>

\* a call of the medium rejects for another reason than a missing file; the
\* catch block returns null
ConsumeFails(i, op) ==
    /\ CanFail
    /\ faults' = faults + 1
    /\ requests' = [requests EXCEPT ![i] = Return(Failed(@, op), NoText)]

\* await fs.access(filePath)
Access(i) ==
    /\ requests[i].pc = "access"
    /\ \/ /\ AccessOk(fs, requests[i].path)
          /\ requests' = [requests EXCEPT
                ![i] = [Did(@, "access") EXCEPT !.pc = "readFile"]]
          /\ UNCHANGED faults
       \/ /\ ~AccessOk(fs, requests[i].path)
          /\ requests' = [requests EXCEPT ![i] = Return(Did(@, "access"), NoText)]
          /\ UNCHANGED faults
       \/ ConsumeFails(i, "access")
    /\ UNCHANGED <<fs, issued, saved, committed, removed, app>>

\* const content = await fs.readFile(filePath, "utf-8")
ReadFile(i) ==
    /\ requests[i].pc = "readFile"
    /\ \/ /\ ReadFileOk(fs, requests[i].path)
          /\ requests' = [requests EXCEPT
                ![i] = [Did(@, "readFile") EXCEPT
                          !.content = Text(ReadFileData(fs, requests[i].path)),
                          !.pc = "unlink"]]
          /\ UNCHANGED faults
       \/ /\ ~ReadFileOk(fs, requests[i].path)
          /\ requests' = [requests EXCEPT ![i] = Return(Did(@, "readFile"), NoText)]
          /\ UNCHANGED faults
       \/ ConsumeFails(i, "readFile")
    /\ UNCHANGED <<fs, issued, saved, committed, removed, app>>

\* await fs.unlink(filePath); return content
Unlink(i) ==
    /\ requests[i].pc = "unlink"
    /\ \/ /\ UnlinkOk(fs, requests[i].path)
          /\ fs' = Unlinked(fs, requests[i].path)
          /\ removed' = removed \cup {requests[i].path}
          /\ requests' = [requests EXCEPT
                ![i] = Return(Did(@, "unlink"), requests[i].content)]
          /\ UNCHANGED faults
       \/ /\ ~UnlinkOk(fs, requests[i].path)
          /\ requests' = [requests EXCEPT ![i] = Return(Did(@, "unlink"), NoText)]
          /\ UNCHANGED <<fs, removed, faults>>
       \/ /\ ConsumeFails(i, "unlink")
          /\ UNCHANGED <<fs, removed>>
    /\ UNCHANGED <<issued, saved, committed, app>>

Next ==
    \/ PostCreateInvalid
    \/ PostCreate
    \/ GetMessageInvalid
    \/ GetMessage
    \/ CallReadAndDelete
    \/ \E i \in Ids : WriteFileOpen(i)
    \/ \E i \in Ids : WriteFileWrite(i)
    \/ \E i \in Ids : WriteFileClose(i)
    \/ \E i \in Ids : Access(i)
    \/ \E i \in Ids : ReadFile(i)
    \/ \E i \in Ids : Unlink(i)

Spec == Init /\ [][Next]_vars

(***************************************************************************)
(* Scheduling: the event loop resumes every handler whose awaited call of  *)
(* the medium has settled, so a step of a request that stays possible is   *)
(* eventually taken.                                                       *)
(***************************************************************************)
StepOf(i) ==
    /\ i \in Ids
    /\ \/ WriteFileOpen(i)
       \/ WriteFileWrite(i)
       \/ WriteFileClose(i)
       \/ Access(i)
       \/ ReadFile(i)
       \/ Unlink(i)

FairSpec == Spec /\ \A i \in 1..MaxRequests : WF_vars(StepOf(i))

(***************************************************************************)
(* The same routes and store with messages of the maximum length: fewer    *)
(* requests, each with ten thousand characters to write.                   *)
(***************************************************************************)
LongMessages == {MESSAGE_FULL}

CanStartLong == Len(requests) < MaxLongRequests

PostCreateLong == CanStartLong /\ PostCreateOf(LongMessages)

GetMessageLong == CanStartLong /\ GetMessage

NextLong ==
    \/ PostCreateLong
    \/ GetMessageLong
    \/ \E i \in Ids : WriteFileOpen(i)
    \/ \E i \in Ids : WriteFileWrite(i)
    \/ \E i \in Ids : WriteFileClose(i)
    \/ \E i \in Ids : Access(i)
    \/ \E i \in Ids : ReadFile(i)
    \/ \E i \in Ids : Unlink(i)

SpecLong == Init /\ [][NextLong]_vars

(***************************************************************************)
(* The process from its start: the bootstrap checks messagesDir, creates   *)
(* it when nothing is there, and listens; the routes run from then on.     *)
(***************************************************************************)
InitStart ==
    /\ fs = [p \in FilePaths |-> NoFile]
    /\ issued = {}
    /\ requests = <<>>
    /\ faults = 0
    /\ saved = [p \in FilePaths |-> NoText]
    /\ committed = {}
    /\ removed = {}
    /\ app \in {[pc |-> "existsSync", messagesDir |-> dir] : dir \in DirStates}

\* if (!fs.existsSync(messagesDir))
CheckMessagesDir ==
    /\ app.pc = "existsSync"
    /\ app' = [app EXCEPT !.pc = IF ExistsSync(app.messagesDir)
                                  THEN "listen" ELSE "mkdirSync"]
    /\ UNCHANGED <<fs, issued, requests, faults, saved, committed, removed>>

\* fs.mkdirSync(messagesDir)
MkdirSync ==
    /\ app.pc = "mkdirSync"
    /\ app' = [pc |-> "listen", messagesDir |-> "directory"]
    /\ UNCHANGED <<fs, issued, requests, faults, saved, committed, removed>>

\* app.listen(PORT)
Listen ==
    /\ app.pc = "listen"
    /\ app' = [app EXCEPT !.pc = "listening"]
    /\ UNCHANGED <<fs, issued, requests, faults, saved, committed, removed>>

\* a request reaches a route once the server listens
Serving == app.pc = "listening"

PostCreateInvalidServed == Serving /\ PostCreateInvalid
PostCreateServed == Serving /\ PostCreate
GetMessageInvalidServed == Serving /\ GetMessageInvalid
GetMessageServed == Serving /\ GetMessage

NextStart ==
    \/ CheckMessagesDir
    \/ MkdirSync
    \/ Listen
    \/ PostCreateInvalidServed
    \/ PostCreateServed
    \/ GetMessageInvalidServed
    \/ GetMessageServed
    \/ \E i \in Ids : WriteFileOpen(i)
    \/ \E i \in Ids : WriteFileWrite(i)
    \/ \E i \in Ids : WriteFileClose(i)
    \/ \E i \in Ids : Access(i)
    \/ \E i \in Ids : ReadFile(i)
    \/ \E i \in Ids : Unlink(i)

SpecStart == InitStart /\ [][NextStart]_vars

(***************************************************************************)
(* The functions of the sanitizer applied to one argument each.            *)
(***************************************************************************)
TextChars == {" ", "\t", "a", "<"}
ShortTexts == UNION {[1..n -> TextChars] : n \in 0..MaxTextLen}
\* texts at the maximum length, one below and one above, with and without
\* white space at an end
BoundaryTexts ==
    {LongText, FullText,
     [n \in 1..(ValidateMaxLength - 1) |-> "a"],
     [n \in 1..ValidateMaxLength |-> IF n = ValidateMaxLength THEN " " ELSE "a"],
     [n \in 1..(ValidateMaxLength + 1) |-> IF n = 1 THEN " " ELSE "a"]}

ValidateInputs ==
    {StringValue(t) : t \in ShortTexts \cup BoundaryTexts}
    \cup {UndefinedValue, NullValue, NumberValue, BooleanValue, ArrayValue}

\* the characters escape replaces, a letter, a space and ";"
SanitizeChars == {" ", "a", ";", "&", "<", ">", "\"", "'", "/", "\\", "GRAVE"}
SanitizeShortTexts == UNION {[1..n -> SanitizeChars] : n \in 0..MaxTextLen}
\* a text that is already escaped; a script element; a text whose escaped
\* form has exactly the maximum length; texts that the maximum length cuts;
\* a text that trim shortens, escape lengthens and the maximum length cuts
SanitizeLongTexts ==
    {<<"&","a","m","p",";">>,
     <<"<","s","c","r","i","p","t",">","a","(","1",")","<","/","s","c","r","i","p","t",">">>,
     [n \in 1..(SanitizeMaxLength - 4) |-> IF n = SanitizeMaxLength - 4 THEN "&" ELSE "a"],
     FullText, LongText,
     [n \in 1..(ValidateMaxLength + 1) |-> IF n = 1 THEN " " ELSE "a"],
     [n \in 1..(SanitizeMaxLength + 2) |->
         IF n \in {1, SanitizeMaxLength + 2} THEN " "
         ELSE IF n = SanitizeMaxLength + 1 THEN "<" ELSE "a"]}

SanitizeInputs == SanitizeShortTexts \cup SanitizeLongTexts

VALIDATE_CALL == "validateMessage"
SANITIZE_CALL == "sanitizeInput"

PureCall(function, value) ==
    [route |-> function, value |-> value, pc |-> "call", returned |-> FALSE]

\* sanitizeInput(input), and sanitizeInput applied to what it returned
SanitizeCall(input) ==
    [route |-> SANITIZE_CALL, value |-> StringValue(input), pc |-> "call",
     returned |-> <<>>, again |-> <<>>]

InitPure ==
    /\ requests \in {<<PureCall(VALIDATE_CALL, v)>> : v \in ValidateInputs}
                    \cup {<<SanitizeCall(t)>> : t \in SanitizeInputs}
    /\ fs = [p \in FilePaths |-> NoFile]
    /\ issued = {}
    /\ faults = 0
    /\ saved = [p \in FilePaths |-> NoText]
    /\ committed = {}
    /\ removed = {}
    /\ app = Listening

CallValidateMessage ==
    /\ \E i \in Ids :
          /\ requests[i].route = VALIDATE_CALL
          /\ requests[i].pc = "call"
          /\ requests' = [requests EXCEPT
                ![i] = [@ EXCEPT !.pc = "done",
                                 !.returned = validateMessage(requests[i].value)]]
    /\ UNCHANGED <<fs, issued, faults, saved, committed, removed, app>>

CallSanitizeInput ==
    /\ \E i \in Ids :
          /\ requests[i].route = SANITIZE_CALL
          /\ requests[i].pc = "call"
          /\ requests' = [requests EXCEPT
                ![i] = [@ EXCEPT !.pc = "once",
                                 !.returned = sanitizeInput(requests[i].value.text)]]
    /\ UNCHANGED <<fs, issued, faults, saved, committed, removed, app>>

CallSanitizeInputAgain ==
    /\ \E i \in Ids :
          /\ requests[i].route = SANITIZE_CALL
          /\ requests[i].pc = "once"
          /\ requests' = [requests EXCEPT
                ![i] = [@ EXCEPT !.pc = "twice",
                                 !.again = sanitizeInput(requests[i].returned)]]
    /\ UNCHANGED <<fs, issued, faults, saved, committed, removed, app>>

NextPure ==
    \/ CallValidateMessage
    \/ CallSanitizeInput
    \/ CallSanitizeInputAgain

SpecPure == InitPure /\ [][NextPure]_vars

(***************************************************************************)
(* Vocabulary of the properties.                                           *)
(***************************************************************************)
Consumer(i) == requests[i].route \in Consumers
Creator(i) == requests[i].route = POST_CREATE /\ requests[i].id # NoId
Done(i) == requests[i].pc = "done"
ReturnedContent(i) == Consumer(i) /\ Done(i) /\ requests[i].result.some
ReturnedMiss(i) == Consumer(i) /\ Done(i) /\ ~requests[i].result.some
HasRead(i) == Consumer(i) /\ requests[i].content.some
\* the text a reader gets back from a file that holds all of content
Stored(path) == Utf8(saved[path].text)
\* consumers that started while the entry was live, and before it was
RacersOn(path) == {i \in ConsumersOf(path) : requests[i].phase = "live"}
EarlyOn(path) == {i \in ConsumersOf(path) : requests[i].phase = "before"}
\* the three reasons for which a posted value is not acceptable
NonText(value) == value.kind # "string"
EmptyAfterTrim(value) ==
    value.kind = "string" /\ \A n \in 1..Len(value.text) : value.text[n] \in WhiteSpace
TooLong(value) == value.kind = "string" /\ Len(value.text) > ValidateMaxLength
Unacceptable(value) == NonText(value) \/ EmptyAfterTrim(value) \/ TooLong(value)
\* the encodings escape produces, and their occurrence at a position
EscapeEncodings ==
    {EscapeChar(c) : c \in {"&", "\"", "'", "<", ">", "/", "\\", "GRAVE"}}
StartsAt(text, p, part) ==
    /\ p + Len(part) - 1 <= Len(text)
    /\ \A k \in 1..Len(part) : text[p + k - 1] = part[k]
\* the characters escape replaces, and a text that holds one
MarkupChars == {"&", "\"", "'", "<", ">", "/", "\\", "GRAVE"}
HasMarkup(text) == \E k \in 1..Len(text) : text[k] \in MarkupChars
\* a call of sanitizeInput that has returned
Sanitized(i) == requests[i].route = SANITIZE_CALL /\ requests[i].pc # "call"
\* the request that takes the step
Steps(i) ==
    \/ requests'[i].pc # requests[i].pc
    \/ requests'[i].written # requests[i].written

\* C1: on every entry, whatever keys the invocations of consumeOnce name it
\* by and however their steps interleave, at most one invocation returns
\* content.
C1_AtMostOneContent ==
    \A path \in FilePaths :
        Cardinality({i \in ConsumersOf(path) : ReturnedContent(i)}) <= 1

\* two invocations raced on a live entry, both read it, one returned it
C1_Witness ==
    \E i, j \in Ids :
        /\ i # j
        /\ requests[i].id = requests[j].id
        /\ requests[i].phase = "live" /\ requests[j].phase = "live"
        /\ HasRead(i) /\ HasRead(j)
        /\ ReturnedContent(i) /\ ReturnedMiss(j)

\* C2: when every consumeOnce on an entry started while the entry was live
\* and all of them have completed without a failure of the medium, exactly
\* one of them has returned the content and the others Miss.
C2_SingleDelivery ==
    \A path \in FilePaths :
        ( /\ RacersOn(path) # {}
          /\ EarlyOn(path) = {}
          /\ \A i \in RacersOn(path) : Done(i) /\ ~requests[i].fault )
        => /\ Cardinality({i \in RacersOn(path) : ReturnedContent(i)}) = 1
           /\ \A i \in RacersOn(path) :
                 ReturnedContent(i) => requests[i].result.text = Stored(path)

\* two invocations that ran concurrently on a live entry have both completed
C2_Witness ==
    \E path \in FilePaths :
        /\ Cardinality(RacersOn(path)) = 2
        /\ EarlyOn(path) = {}
        /\ \A i \in RacersOn(path) :
              Done(i) /\ ~requests[i].fault /\ ~requests[i].alone

\* C3: an entry that a consumeOnce has removed stays absent, and every
\* consumeOnce that starts after the removal returns Miss.
C3_NoResurrection ==
    /\ \A path \in removed : ~fs[path].exists
    /\ \A i \in Ids :
          (Consumer(i) /\ Done(i) /\ requests[i].phase = "gone")
          => requests[i].result = NoText

\* a consumeOnce that started after the removal has completed
C3_Witness ==
    \E i \in Ids :
        /\ Consumer(i) /\ Done(i) /\ requests[i].phase = "gone"
        /\ "access" \in requests[i].ops

\* C4: of the invocations that race on a live entry, no two have both
\* completed readFile: the second read fails because the file is gone.
C4_NoSecondRead ==
    \A path \in FilePaths :
        Cardinality({i \in RacersOn(path) : HasRead(i)}) <= 1

C6_UnknownKeyMiss ==
    \A i \in Ids :
        (Consumer(i) /\ Done(i) /\ requests[i].id \notin issued)
        => requests[i].result = NoText

\* C7: readAndDeleteMessage called with a malformed key makes no call of
\* the medium and returns Miss.
C7_StoreRejectsMalformed ==
    \A i \in Ids :
        (requests[i].route = STORE_CALL /\ ~isValidMessageId(IdText(requests[i].id)))
        => /\ requests[i].ops = {}
           /\ Done(i) => requests[i].result = NoText

\* C8: a GET /message/:id whose id fails isValidMessageId never enters
\* readAndDeleteMessage, makes no call of the medium and is answered with
\* the not-found page.
C8_GatewayRejectsMalformed ==
    \A i \in Ids :
        (requests[i].route = GET_MESSAGE /\ ~isValidMessageId(IdText(requests[i].id)))
        => /\ Done(i)
           /\ requests[i].phase = ""
           /\ requests[i].ops = {}
           /\ requests[i].response = MessagePage(NoText)
           /\ ~ShowsMessage(requests[i].response)

\* the id names a live entry through another spelling, and is rejected
C8_Witness ==
    \E i \in Ids :
        /\ requests[i].route = GET_MESSAGE
        /\ requests[i].id = KEY_ALIAS_A
        /\ Done(i)
        /\ Live(requests[i].path)

\* why a consumer came back without content
Cause(i) ==
    IF ~isValidMessageId(IdText(requests[i].id)) THEN "malformed"
    ELSE IF requests[i].fault THEN "failure"
    ELSE IF requests[i].phase = "gone" THEN "consumed"
    ELSE IF requests[i].phase = "live" THEN "race lost"
    ELSE IF saved[requests[i].path].some THEN "not yet written"
    ELSE "never created"

\* C9: every reader that gets no content gets the same outcome whatever the
\* cause (malformed key, key never created, entry already consumed, race
\* lost): null from the store and, from the route, the one not-found page.
C9_MissIndistinguishable ==
    \A i \in Ids :
        (Consumer(i) /\ Done(i) /\ ~ReturnedContent(i))
        => /\ requests[i].result = NoText
           /\ requests[i].route = GET_MESSAGE
              => /\ requests[i].response = MessagePage(NoText)
                 /\ ~ShowsMessage(requests[i].response)

\* a reader saw the message, and a later reader of the same link gets the
\* not-found page
C9_Witness ==
    \E i, j \in Ids :
        /\ requests[i].route = GET_MESSAGE /\ ShowsMessage(requests[i].response)
        /\ requests[j].route = GET_MESSAGE /\ Done(j) /\ ~ReturnedContent(j)
        /\ requests[j].id = requests[i].id
        /\ Cause(j) = "consumed"

\* C10: whatever a consumeOnce returns is the complete content passed to
\* create for that entry, as UTF-8 decodes it.
C10_NoPartialContent ==
    \A i \in Ids :
        ReturnedContent(i)
        => /\ saved[requests[i].path].some
           /\ requests[i].result.text = Stored(requests[i].path)

\* C11: a create whose writeFile is rejected by the medium reports it:
\* saveMessage returns no key and the entry is never committed, and POST
\* /create answers 500 "Internal server error", not the success page.
C11_WriteFailureReported ==
    \A i \in Ids :
        (Creator(i) /\ requests[i].fault)
        => /\ Done(i)
           /\ requests[i].result = NoText
           /\ requests[i].path \notin committed
           /\ requests[i].response.status = 500
           /\ requests[i].response.view = "Internal server error"
           /\ requests[i].response # SuccessPage(requests[i].id)

\* writeFile opened the file and one of its writes was rejected
C11_Witness ==
    \E i \in Ids :
        /\ Creator(i) /\ requests[i].fault /\ Done(i)
        /\ {"open", "write"} \subseteq requests[i].ops

\* C12: a consumeOnce on a live entry in which the medium rejects readFile
\* or unlink for a reason other than a missing file does not end in Miss:
\* the store does not return null, and GET /message/:id answers 500.
C12_FailureSurfaced ==
    \A i \in Ids :
        ( /\ Consumer(i) /\ Done(i) /\ requests[i].fault
          /\ requests[i].phase = "live" /\ "readFile" \in requests[i].ops )
        => /\ requests[i].result # NoText
           /\ requests[i].route = GET_MESSAGE => requests[i].response.status = 500

\* C13: readAndDeleteMessage turns every failure into Miss: whichever step
\* fails (access, readFile, unlink), for a missing file or for another
\* reason, the invocation completes with null; content is returned only
\* after all three steps succeeded, and the rejection path of the route
\* (500) is never taken by a reader.
C13_FailuresCollapse ==
    \A i \in Ids :
        Consumer(i)
        => /\ requests[i].fault => Done(i) /\ requests[i].result = NoText
           /\ Done(i) => \/ requests[i].result = NoText
                         \/ /\ requests[i].result = requests[i].content
                            /\ {"access", "readFile", "unlink"} \subseteq requests[i].ops
                            /\ ~requests[i].fault
           /\ requests[i].response.status # 500
           /\ (Done(i) /\ requests[i].phase # "" /\ requests[i].route = GET_MESSAGE)
              => requests[i].response = MessagePage(requests[i].result)

\* the medium rejected the unlink of a reader that had read the content
C13_Witness ==
    \E i \in Ids :
        /\ requests[i].route = GET_MESSAGE /\ Done(i)
        /\ requests[i].fault /\ "unlink" \in requests[i].ops
        /\ requests[i].content.some /\ requests[i].content.text # <<>>
        /\ fs[requests[i].path].exists

\* where a key stands: an entry is live when it exists in the backing store
KeyState(f, gone, path) ==
    IF f[path].exists THEN "Live"
    ELSE IF path \in gone THEN "Gone"
    ELSE "NeverCreated"

\* C14: every step moves a key only NeverCreated -> Live, by the create
\* that generated it, or Live -> Gone, by a consumeOnce that returns the
\* content; Gone is terminal; the store is changed by no request other than
\* a create or a consumeOnce of that entry; and the content of a live entry
\* does not change.
C14_Lifecycle ==
    [][\A path \in FilePaths :
          LET before == KeyState(fs, removed, path)
              after == KeyState(fs', removed', path)
          IN  /\ before # after
                 => \/ /\ before = "NeverCreated" /\ after = "Live"
                       /\ \E i \in Ids :
                             /\ Creator(i) /\ requests[i].path = path
                             /\ requests[i].pc = "open"
                    \/ /\ before = "Live" /\ after = "Gone"
                       /\ \E i \in Ids :
                             /\ Consumer(i) /\ requests[i].path = path
                             /\ requests[i].pc = "unlink"
                             /\ requests'[i].result = requests[i].content
              /\ fs'[path] # fs[path]
                 => \E i \in Ids :
                       /\ Steps(i)
                       /\ requests[i].path = path
                       /\ Creator(i) \/ Consumer(i)
              /\ (before = "Live" /\ after = "Live")
                 => fs'[path].data = fs[path].data
    ]_vars

\* C15: distinct creates, concurrent ones included, get distinct keys and
\* distinct files; the open of a create always makes a new file, never
\* truncating one that exists, and never on a path that was removed.
C15_FreshKeys ==
    /\ \A i, j \in Ids :
          (Creator(i) /\ Creator(j) /\ i # j)
          => /\ requests[i].id # requests[j].id
             /\ IdText(requests[i].id) # IdText(requests[j].id)
             /\ PathText(requests[i].path) # PathText(requests[j].path)
    /\ \A i \in Ids :
          Creator(i)
          => /\ requests[i].pc = "open"
                => /\ ~fs[requests[i].path].exists
                   /\ requests[i].path \notin removed
             /\ ("open" \in requests[i].ops /\ ~requests[i].fault)
                => requests[i].fd = i
             /\ (Done(i) /\ requests[i].result.some)
                => requests[i].result.text = <<requests[i].id>>

\* two creates of the same message have both returned, each its own key, and
\* both entries are live
C15_Witness ==
    \E i, j \in Ids :
        /\ i < j
        /\ Creator(i) /\ Creator(j)
        /\ requests[i].result.some /\ requests[j].result.some
        /\ requests[i].message = requests[j].message
        /\ Live(requests[i].path) /\ Live(requests[j].path)

\* C16: a step of a create or of a consumeOnce on key A leaves the file of
\* every other key B with a live entry as it was (so distinct keys have distinct
\* files, and no operation on A changes the presence, the content or the
\* result of a consumeOnce of B).
C16_KeysIndependent ==
    [][\A i \in Ids :
          Steps(i)
          => \A b \in issued :
                (b # requests[i].id /\ Live(PathOf(b)))
                => fs'[PathOf(b)] = fs[PathOf(b)]
    ]_vars

\* C17: every file present in the store holds sanitizeInput(m), as UTF-8
\* stores it, for a posted message m that validateMessage accepted; and
\* every create passes to saveMessage the one application of sanitizeInput
\* to its validated message.
C17_StoredSanitized ==
    /\ \A path \in FilePaths :
          fs[path].exists
          => \E m \in PostedMessages :
                /\ validateMessage(Body(m))
                /\ fs[path].data = Utf8(sanitizeInput(Body(m).text))
    /\ \A i \in Ids :
          Creator(i)
          => /\ validateMessage(Body(requests[i].message))
             /\ requests[i].sanitizedMessage = sanitizeInput(Body(requests[i].message).text)
             /\ saved[requests[i].path] = Text(requests[i].sanitizedMessage)

\* C18: in every reachable state the content of every file of the store,
\* and every content passed to saveMessage, is at most 10,000 characters
\* long.
C18_LengthBounded ==
    /\ \A path \in FilePaths :
          /\ Len(fs[path].data) <= SanitizeMaxLength
          /\ Len(saved[path].text) <= SanitizeMaxLength
    /\ \A i \in Ids : Len(requests[i].sanitizedMessage) <= SanitizeMaxLength

\* a message of 10,000 characters that escape made longer is stored, cut to
\* 10,000 characters in the middle of the last replacement
C18_Witness ==
    \E i \in Ids :
        /\ Creator(i) /\ Done(i)
        /\ Live(requests[i].path)
        /\ Len(Escape(Trim(Body(requests[i].message).text))) > SanitizeMaxLength
        /\ Len(fs[requests[i].path].data) = SanitizeMaxLength
        /\ fs[requests[i].path].data[SanitizeMaxLength] = "&"

\* C19: a POST /create whose message is not text, is empty after trimming
\* or is too long is answered 400 "Invalid message" at once: it has no
\* sanitized value, no key and no file, it makes no call of the medium, and
\* the step that answers it leaves the store and the generated keys as they
\* were. No other POST /create is answered 400.
C19_InvalidRejected ==
    /\ [](\A i \in Ids :
            requests[i].route = POST_CREATE
            => /\ Unacceptable(Body(requests[i].message))
                  => /\ Done(i)
                     /\ requests[i].response.status = 400
                     /\ requests[i].response.view = "Invalid message"
                     /\ requests[i].id = NoId /\ requests[i].path = NoPath
                     /\ requests[i].sanitizedMessage = <<>>
                     /\ requests[i].ops = {}
               /\ requests[i].response.status = 400
                  => Unacceptable(Body(requests[i].message)))
    /\ [][\A i \in Ids' \ Ids :
            (requests'[i].route = POST_CREATE /\ Unacceptable(Body(requests'[i].message)))
            => /\ fs' = fs
               /\ issued' = issued
               /\ saved' = saved
               /\ committed' = committed /\ removed' = removed
       ]_vars

\* an over-long message is refused while an entry is live
C19_Witness ==
    \E i, j \in Ids :
        /\ requests[i].route = POST_CREATE
        /\ requests[i].message = MESSAGE_TOO_LONG
        /\ requests[i].response.status = 400
        /\ i > j /\ Creator(j) /\ Live(requests[j].path)

\* C20: validateMessage returns a boolean for every argument: false when
\* the argument is not text, when it is empty or only white space, and when
\* it is longer than 10,000; true for every other text.
C20_ValidateMessage ==
    \A i \in Ids :
        (requests[i].route = VALIDATE_CALL /\ requests[i].pc = "done")
        => /\ requests[i].returned \in BOOLEAN
           /\ requests[i].returned = ~Unacceptable(requests[i].value)

\* a text of exactly 10,000 characters, the last one a space, is accepted
C20_Witness ==
    \E i \in Ids :
        /\ requests[i].route = VALIDATE_CALL /\ requests[i].pc = "done"
        /\ requests[i].returned
        /\ Len(requests[i].value.text) = ValidateMaxLength
        /\ requests[i].value.text[ValidateMaxLength] = " "

\* C21: validateMessage accepts a text of exactly 10,000 characters that is
\* not all white space and rejects every text of 10,001 characters, also
\* one that trimming would bring down to 10,000: the length compared is
\* that of the argument as given.
C21_LengthBoundary ==
    \A i \in Ids :
        ( /\ requests[i].route = VALIDATE_CALL /\ requests[i].pc = "done"
          /\ requests[i].value.kind = "string" )
        => /\ ( /\ Len(requests[i].value.text) = ValidateMaxLength
                /\ \E n \in 1..Len(requests[i].value.text) :
                      requests[i].value.text[n] \notin WhiteSpace )
              => requests[i].returned
           /\ Len(requests[i].value.text) = ValidateMaxLength + 1
              => ~requests[i].returned

\* 10,001 characters of which the first is a space: rejected, although the
\* trimmed text has 10,000
C21_Witness ==
    \E i \in Ids :
        /\ requests[i].route = VALIDATE_CALL /\ requests[i].pc = "done"
        /\ Len(requests[i].value.text) = ValidateMaxLength + 1
        /\ requests[i].value.text[1] = " "
        /\ Len(Trim(requests[i].value.text)) = ValidateMaxLength
        /\ ~requests[i].returned

\* C22: whatever its argument, the text sanitizeInput returns holds no "<",
\* no ">" and no quote character, and every "&" in it is the first
\* character of one of the encodings escape produces.
C22_EscapingTotal ==
    \A i \in Ids :
        Sanitized(i)
        => \A p \in 1..Len(requests[i].returned) :
              /\ requests[i].returned[p] \notin {"<", ">", "\"", "'"}
              /\ requests[i].returned[p] = "&"
                 => \E part \in EscapeEncodings :
                       StartsAt(requests[i].returned, p, part)

\* C23: for every argument validateMessage accepts, sanitizeInput returns
\* the whole escaped, trimmed text: the cut to 10,000 removes nothing.
C23_TruncationBackstop ==
    \A i \in Ids :
        (Sanitized(i) /\ validateMessage(requests[i].value))
        => /\ requests[i].returned = Escape(Trim(requests[i].value.text))
           /\ Len(Escape(Trim(requests[i].value.text))) <= SanitizeMaxLength

\* C24: under fair scheduling of the steps of each request, every request
\* that has started (a create, a consumeOnce, whatever else is running on
\* the same or on other keys) eventually completes.
C24_Completes ==
    \A i \in 1..MaxRequests :
        (i \in Ids) ~> (i \in Ids /\ requests[i].pc = "done")

\* three invocations on one key ran at the same time and all completed
C24_Witness ==
    /\ Len(requests) = MaxRequests
    /\ \A i \in Ids : requests[i].pc = "done" /\ requests[i].path = PATH_A
    /\ \E i \in Ids : Creator(i) /\ requests[i].result.some
    /\ \E i, j \in Ids : i # j /\ HasRead(i) /\ HasRead(j) /\ ~requests[i].alone

\* C25: content leaves readAndDeleteMessage only after destruction: the
\* step in which an invocation gets content as its result is its own
\* unlink, which removes the file; so whenever an invocation has returned
\* content, or the route has rendered a message, the file is gone.
C25_DestroyedBeforeShown ==
    /\ [](\A i \in Ids :
            /\ ReturnedContent(i)
               => /\ "unlink" \in requests[i].ops
                  /\ requests[i].path \in removed
                  /\ ~fs[requests[i].path].exists
            /\ (requests[i].route = GET_MESSAGE /\ requests[i].response.message.some)
               => ReturnedContent(i) /\ ~fs[requests[i].path].exists)
    /\ [][\A i \in Ids :
            (Consumer(i) /\ ~requests[i].result.some /\ requests'[i].result.some)
            => /\ requests[i].pc = "unlink"
               /\ fs[requests[i].path].exists
               /\ ~fs'[requests[i].path].exists
       ]_vars

\* a reader is shown the message and its file is gone
C25_Witness ==
    \E i \in Ids :
        /\ requests[i].route = GET_MESSAGE
        /\ ShowsMessage(requests[i].response)
        /\ requests[i].response.message.text = Stored(requests[i].path)
        /\ ~fs[requests[i].path].exists

\* C26: the unlink decides the race. When an invocation's unlink reaches
\* the medium (and is not rejected for another reason than a missing file),
\* it returns content exactly if no other invocation on that entry had its
\* unlink reach the medium before; when it started, checked or read plays
\* no part.
C26_RemovalArbitrates ==
    [][\A i \in Ids :
          ( /\ Consumer(i)
            /\ requests[i].pc = "unlink" /\ requests'[i].pc = "done"
            /\ ~requests'[i].fault )
          => ( requests'[i].result.some
               <=> ~\E j \in ConsumersOf(requests[i].path) \ {i} :
                       "unlink" \in requests[j].ops /\ ~requests[j].fault )
    ]_vars

\* of two invocations racing on a live entry that both read it, the one
\* that started second returned the content
C26_Witness ==
    \E i, j \in Ids :
        /\ i < j
        /\ requests[i].path = requests[j].path
        /\ requests[i].phase = "live" /\ requests[j].phase = "live"
        /\ HasRead(i) /\ HasRead(j)
        /\ ReturnedMiss(i) /\ ~requests[i].fault
        /\ ReturnedContent(j)

\* C27: no silent destruction. Every step that removes a file is the unlink
\* of an invocation that had read the file before and that returns what it
\* read; and a step of an invocation that does not give it content leaves
\* the store as it was, so an invocation that returns Miss removed nothing.
C27_NoSilentDestruction ==
    [][/\ \A path \in FilePaths :
             (fs[path].exists /\ ~fs'[path].exists)
             => \E i \in ConsumersOf(path) :
                   /\ Steps(i)
                   /\ "readFile" \in requests[i].ops
                   /\ requests[i].content.some
                   /\ requests'[i].result.some
                   /\ requests'[i].result = requests[i].content
       /\ \A i \in Ids :
             (Consumer(i) /\ Steps(i) /\ ~requests'[i].result.some)
             => fs' = fs
    ]_vars

\* one invocation removed the entry and returned what it had read; another
\* reached its unlink too and returned Miss
C27_Witness ==
    \E i, j \in Ids :
        /\ i # j /\ requests[i].path = requests[j].path
        /\ ReturnedContent(i)
        /\ requests[i].result = requests[i].content
        /\ requests[i].result.text # <<>>
        /\ ReturnedMiss(j) /\ "unlink" \in requests[j].ops

\* C28: for every text x, sanitizeInput(x) is truncate(escape(trim(x)),
\* 10000): with core the part of x from its first to its last character
\* that is not white space (empty when there is none), the result is the
\* first min(10000, length) characters of escape(core).
C28_ReferenceComposition ==
    \A i \in Ids :
        Sanitized(i)
        => LET x == requests[i].value.text
               inked == {k \in 1..Len(x) : x[k] \notin WhiteSpace}
               first == CHOOSE k \in inked :
                           \A m \in 1..(k - 1) : x[m] \in WhiteSpace
               last == CHOOSE k \in inked :
                           \A m \in (k + 1)..Len(x) : x[m] \in WhiteSpace
               core == IF inked = {} THEN <<>> ELSE SubSeq(x, first, last)
               escaped == Escape(core)
               kept == IF Len(escaped) < SanitizeMaxLength
                       THEN Len(escaped) ELSE SanitizeMaxLength
           IN  /\ Len(requests[i].returned) = kept
               /\ \A p \in 1..kept : requests[i].returned[p] = escaped[p]

\* an argument on which all three steps act: white space at both ends, a
\* "<" as the 10,000th character of the trimmed text, whose encoding the
\* cut divides
C28_Witness ==
    \E i \in Ids :
        /\ Sanitized(i)
        /\ Len(requests[i].value.text) = SanitizeMaxLength + 2
        /\ requests[i].value.text[1] = " "
        /\ requests[i].value.text[Len(requests[i].value.text)] = " "
        /\ Len(Trim(requests[i].value.text)) = SanitizeMaxLength
        /\ Len(Escape(Trim(requests[i].value.text))) > SanitizeMaxLength
        /\ Len(requests[i].returned) = SanitizeMaxLength
        /\ requests[i].returned[SanitizeMaxLength] = "&"

\* C29: for every text x that holds a character escape replaces and whose
\* sanitized form is shorter than 10,000 characters, sanitizeInput applied
\* to sanitizeInput(x) returns a longer text than sanitizeInput(x): the
\* "&" of every encoding is escaped again.
C29_NotIdempotent ==
    \A i \in Ids :
        ( /\ requests[i].route = SANITIZE_CALL /\ requests[i].pc = "twice"
          /\ HasMarkup(requests[i].value.text)
          /\ Len(requests[i].returned) < SanitizeMaxLength )
        => /\ requests[i].again # requests[i].returned
           /\ Len(requests[i].again) > Len(requests[i].returned)

\* "<" became "&lt;" and then "&amp;lt;"
C29_Witness ==
    \E i \in Ids :
        /\ requests[i].route = SANITIZE_CALL /\ requests[i].pc = "twice"
        /\ requests[i].value.text = <<"<">>
        /\ requests[i].returned = <<"&","l","t",";">>
        /\ requests[i].again = <<"&","a","m","p",";","l","t",";">>

\* C29 as stated: for every text x that holds a character escape
\* replaces, sanitizeInput(sanitizeInput(x)) differs from sanitizeInput(x).
C29_NeverIdempotent ==
    \A i \in Ids :
        ( /\ requests[i].route = SANITIZE_CALL /\ requests[i].pc = "twice"
          /\ HasMarkup(requests[i].value.text) )
        => requests[i].again # requests[i].returned

\* C30: every invocation that returns content returns a non-empty text,
\* and a GET /message/:id whose read succeeded renders the message, never
\* the not-found page.
C30_NonEmptyContent ==
    \A i \in Ids :
        ReturnedContent(i)
        => /\ requests[i].result.text # <<>>
           /\ requests[i].route = GET_MESSAGE
              => ShowsMessage(requests[i].response)

\* C31: the key a completed POST /create returned passes isValidMessageId,
\* and every GET /message/:id that names it got past the format check into
\* readAndDeleteMessage: once it has ended, it has called fs.access.
C31_CreatedKeysWellFormed ==
    \A i \in Ids :
        (Creator(i) /\ Done(i) /\ requests[i].result.some)
        => /\ requests[i].result.text = <<requests[i].id>>
           /\ isValidMessageId(IdText(requests[i].id))
           /\ \A j \in Ids :
                 (requests[j].route = GET_MESSAGE /\ requests[j].id = requests[i].id)
                 => /\ requests[j].phase # ""
                    /\ Done(j) => "access" \in requests[j].ops

\* the first GET of a created key, started after the create returned, was
\* let through and delivered the message
C31_Witness ==
    \E i, j \in Ids :
        /\ Creator(i) /\ Done(i) /\ requests[i].result.some
        /\ requests[j].route = GET_MESSAGE /\ requests[j].id = requests[i].id
        /\ requests[j].phase = "live"
        /\ ReturnedContent(j)
        /\ ShowsMessage(requests[j].response)

\* C32: the response of a request in which a call of the medium was
\* rejected depends on the route alone, not on which call was rejected nor
\* on the file: a create answers 500 "Internal server error", a read
\* renders the not-found page, and neither carries a message.
C32_GenericFailure ==
    \A i \in Ids :
        (requests[i].fault /\ requests[i].route \in {POST_CREATE, GET_MESSAGE})
        => /\ Done(i)
           /\ requests[i].response.message = NoText
           /\ requests[i].response =
                 IF requests[i].route = POST_CREATE
                 THEN [status |-> 500, view |-> "Internal server error",
                       message |-> NoText]
                 ELSE [status |-> 200, view |-> "message.njk", message |-> NoText]

\* a read whose readFile was rejected on an entry that is still there: the
\* response is the page a read of an unknown key gets
C32_Witness ==
    \E i \in Ids :
        /\ requests[i].route = GET_MESSAGE /\ Done(i) /\ requests[i].fault
        /\ "readFile" \in requests[i].ops /\ "unlink" \notin requests[i].ops
        /\ fs[requests[i].path].exists
        /\ requests[i].response = InvalidIdPage

\* C33: whenever a request has entered saveMessage or readAndDeleteMessage,
\* the server is listening and messagesDir is a directory: the bootstrap
\* made it one before the first request was served.
C33_DirectoryReady ==
    \A i \in Ids :
        (Creator(i) \/ (Consumer(i) /\ requests[i].phase # ""))
        => /\ app.pc = "listening"
           /\ app.messagesDir = "directory"

====
